---------------------------- MODULE Spec2Model ----------------------------
(***************************************************************************)
(* Model of the image-selector Dash application (selector_app.py,          *)
(* utils.py, config.py): the grid of class names, the focus / group /      *)
(* keep / delete transitions, the mask over the image container and the    *)
(* complete-group / undo callback with its persistence side effects.       *)
(*                                                                         *)
(* The model covers the normal mode of the program (program_args.demo is   *)
(* False), with one operator: every action is one callback run to its end. *)
(* A callback that raises leaves every Dash output as it was; what it      *)
(* wrote to disk or to the database before raising stays written.          *)
(***************************************************************************)
EXTENDS Integers, Sequences, FiniteSets, TLC

VARIABLES
    classes,            \* className of every grid-td, by flat index i*COLS_MAX + j
    cell_last_clicked,  \* Store 'cell_last_clicked': NoCell or <<i, j>>
    choose_grid_size,   \* Dropdown 'choose-grid-size' (n_rows and n_cols)
    image_container,    \* Store 'image-container': filenames, padded
    n_image_sizes,      \* length of Store 'image-size-container'
    image_data,         \* Store 'image-meta-data': directory -> history
    loaded_image_path,  \* Store 'loaded-image-path'
    n_images,           \* Store 'n_images'
    progress_bar,       \* 'progress_bar' value
    meta_data_file,     \* META_DATA_FPATH: << >> before the first dump, then <<image_data>>
    database,           \* rows of DATABASE_TABLE, in insertion order
    files,              \* working directories on disk: directory -> filenames
    backup,             \* backup tree: folder -> filenames
    last_callback,      \* the callback that ran last and how it ended
    n_actions           \* number of user events so far

vars == <<classes, cell_last_clicked, choose_grid_size, image_container,
          n_image_sizes, image_data, loaded_image_path, n_images, progress_bar,
          meta_data_file, database, files, backup, last_callback, n_actions>>

grid_vars == <<classes, cell_last_clicked>>
store_vars == <<image_container, n_image_sizes, loaded_image_path, n_images>>
disk_vars == <<meta_data_file, database, files, backup>>

-----------------------------------------------------------------------------
(* Bounds *)

\* Side of the maximal grid (7 in config.py); the visible sizes are 2..MaxGrid.
MaxGrid == 3
\* Number of image files in the user's directory "A".
MaxImages == 2
\* Number of default images shipped in config.IMAGE_DIR.
MaxDefaultImages == 1
\* Number of user events in one run.
MaxActions == 4
\* The mask engine on its own: length of the image container, largest
\* position in a group, size of a group, number of groups in a history.
MaxMaskLen == 4
MaxPosition == 4
MaxGroupLen == 2
MaxGroups == 2
\* The files a directory can hold when record_grouped_data is run on its own.
MaxRecordFiles == 3
\* The default images of a start screen on which every one of them is labelled.
MaxStartImages == 3

-----------------------------------------------------------------------------
(* config.py *)

ROWS_MAX == MaxGrid
COLS_MAX == MaxGrid
N_GRID == ROWS_MAX * COLS_MAX
EMPTY_IMG_FNAME == "job_done.jpg"
demo == FALSE

None == "None"
\* Store 'cell_last_clicked' holding None
NoCell == << >>
\* The key 'loaded-image-path' and 'image-meta-data' start with
IGNORE == "__ignore"

\* The values offered by the 'choose-grid-size' dropdown.
GridSizes == {k + 1 : k \in {k \in 0..(ROWS_MAX - 1) : k > 0}}
\* The value the dropdown starts with (4, or the largest one offered).
InitGridSize == IF 4 \in GridSizes THEN 4 ELSE ROWS_MAX

-----------------------------------------------------------------------------
(* Class-name functions: a className is the set of its space-separated names *)

class_toggle_grouped(class_list) ==
    {IF c = "grouped-on" THEN "grouped-off"
     ELSE IF c = "grouped-off" THEN "grouped-on" ELSE c : c \in class_list}

\* Mutant: focus is only ever added.
class_toggle_focus_add_only(class_list) == class_list \cup {"focus"}

class_toggle_focus(class_list) ==
    IF "focus" \in class_list THEN class_list \ {"focus"}
    ELSE class_list \cup {"focus"}

\* Mutant: keep is set, never taken off.
class_toggle_keep_sets(class_list) == (class_list \ {"delete"}) \cup {"keep"}

class_toggle_keep(class_list) ==
    IF "keep" \in class_list THEN class_list \ {"keep"}
    ELSE (class_list \ {"delete"}) \cup {"keep"}

class_toggle_delete(class_list) ==
    IF "delete" \in class_list THEN class_list \ {"delete"}
    ELSE (class_list \ {"keep"}) \cup {"delete"}

\* Mutant: the labels are left on.
class_turn_off_keep_delete_skipped(class_list) == class_list

class_turn_off_keep_delete(class_list) == class_list \ {"keep", "delete"}


-----------------------------------------------------------------------------
(* Grid tools (utils.py).  Every handler returns the new class names, the   *)
(* new last-clicked cell and the exception it raised (None: it returned).   *)

Handled(new_classes, clc, raised) ==
    [classes |-> new_classes, cell_last_clicked |-> clc, raised |-> raised]

\* "if not cell_last_clicked: cell_last_clicked = [0,0]"
LastClickedOrOrigin(clc) == IF clc = NoCell THEN <<0, 0>> ELSE clc

\* The zoomed image: image_list[img_idx] and image_size_list[img_idx] are read
\* when the image list is not empty; an index past either list raises.
ZoomRaises(img_idx, image_list, image_size_len) ==
    IF Len(image_list) > 0
          /\ (img_idx >= Len(image_list) \/ img_idx >= image_size_len)
    THEN "IndexError" ELSE None

\* The class name a grid-td is created with (create_image_grid lays out all
\* rows_max x cols_max cells, the hidden ones included).
get_grid_element(x, y) ==
    IF x + y = 0 THEN {"grouped-off", "focus"} ELSE {"grouped-off"}

create_image_grid(rows_max, cols_max) ==
    [idx \in 0..(rows_max * cols_max - 1) |-> get_grid_element(idx \div cols_max, idx % cols_max)]

\* Mutant: the reset leaves the top-left cell without the focus.
resize_grid_pressed_no_focus(image_list, image_size_len, rows_max, cols_max) ==
    Handled([idx \in 0..(rows_max * cols_max - 1) |-> {"grouped-off"}],
            <<0, 0>>,
            ZoomRaises(0, image_list, image_size_len))

\* The callers also pass n_rows, n_cols and pregroup_func_name, which the
\* function does not use: the grid is reset as its body resets it.
resize_grid_pressed(image_list, image_size_len, rows_max, cols_max) ==
    Handled([idx \in 0..(rows_max * cols_max - 1) |->
                IF (idx \div cols_max) + (idx % cols_max) = 0
                THEN {"grouped-off", "focus"} ELSE {"grouped-off"}],
            <<0, 0>>,
            ZoomRaises(0, image_list, image_size_len))

\* Mutant: a click that ungroups the focused cell leaves it the focus.
image_cell_pressed_keeps_focus(cell_loc, n_cols, cols_max, image_list, image_size_len, args, last) ==
    LET clc == LastClickedOrOrigin(last)
        previous_class_clicked == args[cell_loc[2] + cell_loc[1] * cols_max]
        idx == cell_loc[1] * cols_max + cell_loc[2]
        previous_class_idx == clc[2] + clc[1] * cols_max
        previous_class == args[previous_class_idx]
        \* new_class is left unbound when both cells have focus
        unbound == /\ clc # cell_loc
                   /\ "focus" \in previous_class
                   /\ "focus" \in previous_class_clicked
        new_class == IF "focus" \notin previous_class THEN previous_class
                     ELSE class_toggle_focus(previous_class)
        classes1 == IF clc # cell_loc
                    THEN [args EXCEPT ![previous_class_idx] = new_class]
                    ELSE args
        new_class_clicked ==
            IF "grouped-off" \in previous_class_clicked /\ "focus" \notin previous_class_clicked
            THEN class_toggle_grouped(class_toggle_focus(previous_class_clicked))
            ELSE IF "grouped-off" \in previous_class_clicked /\ "focus" \in previous_class_clicked
            THEN class_toggle_grouped(previous_class_clicked)
            ELSE IF "grouped-on" \in previous_class_clicked /\ "focus" \notin previous_class_clicked
            THEN class_toggle_focus(previous_class_clicked)
            ELSE class_turn_off_keep_delete(class_toggle_grouped(previous_class_clicked))
        new_classes == [classes1 EXCEPT ![idx] = new_class_clicked]
        img_idx == cell_loc[2] + cell_loc[1] * n_cols
    IN  IF unbound THEN Handled(args, last, "UnboundLocalError")
        ELSE IF ZoomRaises(img_idx, image_list, image_size_len) # None
        THEN Handled(args, last, "IndexError")
        ELSE Handled(new_classes, cell_loc, None)

\* Mutant: a click on a grouped cell without focus also ungroups it.
image_cell_pressed_ungroups_unfocused(cell_loc, n_cols, cols_max, image_list, image_size_len, args, last) ==
    LET clc == LastClickedOrOrigin(last)
        previous_class_clicked == args[cell_loc[2] + cell_loc[1] * cols_max]
        idx == cell_loc[1] * cols_max + cell_loc[2]
        previous_class_idx == clc[2] + clc[1] * cols_max
        previous_class == args[previous_class_idx]
        \* new_class is left unbound when both cells have focus
        unbound == /\ clc # cell_loc
                   /\ "focus" \in previous_class
                   /\ "focus" \in previous_class_clicked
        new_class == IF "focus" \notin previous_class THEN previous_class
                     ELSE class_toggle_focus(previous_class)
        classes1 == IF clc # cell_loc
                    THEN [args EXCEPT ![previous_class_idx] = new_class]
                    ELSE args
        new_class_clicked ==
            IF "grouped-off" \in previous_class_clicked /\ "focus" \notin previous_class_clicked
            THEN class_toggle_grouped(class_toggle_focus(previous_class_clicked))
            ELSE IF "grouped-off" \in previous_class_clicked /\ "focus" \in previous_class_clicked
            THEN class_toggle_grouped(previous_class_clicked)
            ELSE IF "grouped-on" \in previous_class_clicked /\ "focus" \notin previous_class_clicked
            THEN class_turn_off_keep_delete(
                     class_toggle_grouped(class_toggle_focus(previous_class_clicked)))
            ELSE class_turn_off_keep_delete(
                     class_toggle_grouped(class_toggle_focus(previous_class_clicked)))
        new_classes == [classes1 EXCEPT ![idx] = new_class_clicked]
        img_idx == cell_loc[2] + cell_loc[1] * n_cols
    IN  IF unbound THEN Handled(args, last, "UnboundLocalError")
        ELSE IF ZoomRaises(img_idx, image_list, image_size_len) # None
        THEN Handled(args, last, "IndexError")
        ELSE Handled(new_classes, cell_loc, None)

\* Mutant: a click on the focused, ungrouped cell does not group it.
image_cell_pressed_focused_stays_ungrouped(cell_loc, n_cols, cols_max, image_list, image_size_len, args, last) ==
    LET clc == LastClickedOrOrigin(last)
        previous_class_clicked == args[cell_loc[2] + cell_loc[1] * cols_max]
        idx == cell_loc[1] * cols_max + cell_loc[2]
        previous_class_idx == clc[2] + clc[1] * cols_max
        previous_class == args[previous_class_idx]
        \* new_class is left unbound when both cells have focus
        unbound == /\ clc # cell_loc
                   /\ "focus" \in previous_class
                   /\ "focus" \in previous_class_clicked
        new_class == IF "focus" \notin previous_class THEN previous_class
                     ELSE class_toggle_focus(previous_class)
        classes1 == IF clc # cell_loc
                    THEN [args EXCEPT ![previous_class_idx] = new_class]
                    ELSE args
        new_class_clicked ==
            IF "grouped-off" \in previous_class_clicked /\ "focus" \notin previous_class_clicked
            THEN class_toggle_grouped(class_toggle_focus(previous_class_clicked))
            ELSE IF "grouped-off" \in previous_class_clicked /\ "focus" \in previous_class_clicked
            THEN previous_class_clicked
            ELSE IF "grouped-on" \in previous_class_clicked /\ "focus" \notin previous_class_clicked
            THEN class_toggle_focus(previous_class_clicked)
            ELSE class_turn_off_keep_delete(
                     class_toggle_grouped(class_toggle_focus(previous_class_clicked)))
        new_classes == [classes1 EXCEPT ![idx] = new_class_clicked]
        img_idx == cell_loc[2] + cell_loc[1] * n_cols
    IN  IF unbound THEN Handled(args, last, "UnboundLocalError")
        ELSE IF ZoomRaises(img_idx, image_list, image_size_len) # None
        THEN Handled(args, last, "IndexError")
        ELSE Handled(new_classes, cell_loc, None)

image_cell_pressed(cell_loc, n_cols, cols_max, image_list, image_size_len, args, last) ==
    LET clc == LastClickedOrOrigin(last)
        previous_class_clicked == args[cell_loc[2] + cell_loc[1] * cols_max]
        idx == cell_loc[1] * cols_max + cell_loc[2]
        previous_class_idx == clc[2] + clc[1] * cols_max
        previous_class == args[previous_class_idx]
        \* new_class is left unbound when both cells have focus
        unbound == /\ clc # cell_loc
                   /\ "focus" \in previous_class
                   /\ "focus" \in previous_class_clicked
        new_class == IF "focus" \notin previous_class THEN previous_class
                     ELSE class_toggle_focus(previous_class)
        classes1 == IF clc # cell_loc
                    THEN [args EXCEPT ![previous_class_idx] = new_class]
                    ELSE args
        new_class_clicked ==
            IF "grouped-off" \in previous_class_clicked /\ "focus" \notin previous_class_clicked
            THEN class_toggle_grouped(class_toggle_focus(previous_class_clicked))
            ELSE IF "grouped-off" \in previous_class_clicked /\ "focus" \in previous_class_clicked
            THEN class_toggle_grouped(previous_class_clicked)
            ELSE IF "grouped-on" \in previous_class_clicked /\ "focus" \notin previous_class_clicked
            THEN class_toggle_focus(previous_class_clicked)
            ELSE class_turn_off_keep_delete(
                     class_toggle_grouped(class_toggle_focus(previous_class_clicked)))
        new_classes == [classes1 EXCEPT ![idx] = new_class_clicked]
        img_idx == cell_loc[2] + cell_loc[1] * n_cols
    IN  IF unbound THEN Handled(args, last, "UnboundLocalError")
        ELSE IF ZoomRaises(img_idx, image_list, image_size_len) # None
        THEN Handled(args, last, "IndexError")
        ELSE Handled(new_classes, cell_loc, None)

Min(a, b) == IF a < b THEN a ELSE b

toggle_group_in_first_n_rows(row, n_cols, rows_max, cols_max, image_list, image_size_len, args, last) ==
    LET clc == LastClickedOrOrigin(last)
        toggled == {j + i * cols_max : i \in 0..(Min(row, rows_max) - 1), j \in 0..(n_cols - 1)}
        new_classes == [cell_list_idx \in DOMAIN args |->
                           IF cell_list_idx \in toggled
                           THEN class_turn_off_keep_delete(class_toggle_grouped(args[cell_list_idx]))
                           ELSE args[cell_list_idx]]
        img_idx == clc[2] + clc[1] * n_cols
    IN  IF ZoomRaises(img_idx, image_list, image_size_len) # None
        THEN Handled(args, last, "IndexError")
        ELSE Handled(new_classes, clc, None)

\* The cell a directional button moves to from (i, j).
MoveTarget(button_id, i, j, n_rows, n_cols) ==
    IF button_id = "move-left" THEN <<i, (j - 1) % n_cols>>
    ELSE IF button_id = "move-right" THEN <<i, (j + 1) % n_cols>>
    ELSE IF button_id = "move-up" THEN <<(i - 1) % n_rows, j>>
    ELSE <<(i + 1) % n_rows, j>>

\* Mutant: focus leaves the current cell and is not given to the target.
ShiftFocus_no_target(target, n_cols, cols_max, image_list, image_size_len, args, last) ==
    LET clc == LastClickedOrOrigin(last)
        idx == clc[1] * cols_max + clc[2]
        my_class == args[idx]
        classes1 == IF "focus" \in my_class
                    THEN [args EXCEPT ![idx] = class_toggle_focus(my_class)]
                    ELSE args
        img_idx == target[2] + target[1] * n_cols
    IN  IF ZoomRaises(img_idx, image_list, image_size_len) # None
        THEN Handled(args, last, "IndexError")
        ELSE Handled(classes1, target, None)

\* The common part of a move: focus leaves cell (i, j) and is toggled on `target`.
ShiftFocus(target, n_cols, cols_max, image_list, image_size_len, args, last) ==
    LET clc == LastClickedOrOrigin(last)
        idx == clc[1] * cols_max + clc[2]
        my_class == args[idx]
        classes1 == IF "focus" \in my_class
                    THEN [args EXCEPT ![idx] = class_toggle_focus(my_class)]
                    ELSE args
        check_class == args[target[2] + target[1] * cols_max]
        current_idx == target[1] * cols_max + target[2]
        new_classes == IF check_class # {}
                       THEN [classes1 EXCEPT ![current_idx] = class_toggle_focus(classes1[current_idx])]
                       ELSE classes1
        new_last == IF check_class # {} THEN target ELSE clc
        img_idx == new_last[2] + new_last[1] * n_cols
    IN  IF ZoomRaises(img_idx, image_list, image_size_len) # None
        THEN Handled(args, last, "IndexError")
        ELSE Handled(new_classes, new_last, None)

direction_key_pressed(button_id, n_rows, n_cols, cols_max, image_list, image_size_len, args, last) ==
    LET clc == LastClickedOrOrigin(last)
    IN  ShiftFocus(MoveTarget(button_id, clc[1], clc[2], n_rows, n_cols),
                   n_cols, cols_max, image_list, image_size_len, args, last)

\* Mutant: the focused cell is labelled whether it is grouped or not.
keep_delete_pressed_any_focus(button_id, n_cols, cols_max, image_list, image_size_len, args, last) ==
    LET clc == LastClickedOrOrigin(last)
        idx == clc[1] * cols_max + clc[2]
        my_class == args[idx]
        new_classes ==
            IF "focus" \in my_class
            THEN IF button_id = "keep-button"
                 THEN [args EXCEPT ![idx] = class_toggle_keep(my_class)]
                 ELSE [args EXCEPT ![idx] = class_toggle_delete(my_class)]
            ELSE args
        img_idx == clc[2] + clc[1] * n_cols
    IN  IF ZoomRaises(img_idx, image_list, image_size_len) # None
        THEN Handled(args, last, "IndexError")
        ELSE Handled(new_classes, clc, None)

keep_delete_pressed(button_id, n_cols, cols_max, image_list, image_size_len, args, last) ==
    LET clc == LastClickedOrOrigin(last)
        idx == clc[1] * cols_max + clc[2]
        my_class == args[idx]
        new_classes ==
            IF "focus" \in my_class /\ "grouped-on" \in my_class
            THEN IF button_id = "keep-button"
                 THEN [args EXCEPT ![idx] = class_toggle_keep(my_class)]
                 ELSE [args EXCEPT ![idx] = class_toggle_delete(my_class)]
            ELSE args
        img_idx == clc[2] + clc[1] * n_cols
    IN  IF ZoomRaises(img_idx, image_list, image_size_len) # None
        THEN Handled(args, last, "IndexError")
        ELSE Handled(new_classes, clc, None)

\* utils.jump_focus_n_cells is not among the sources: a jump of n_cells along
\* the row, as one modulo step (spec, JumpMove).
jump_focus_n_cells(jump_left, n_cells, n_rows, n_cols, cols_max, image_list, image_size_len, args, last) ==
    LET clc == LastClickedOrOrigin(last)
        new_j == IF jump_left THEN (clc[2] - n_cells) % n_cols
                 ELSE (clc[2] + n_cells) % n_cols
    IN  ShiftFocus(<<clc[1], new_j>>, n_cols, cols_max, image_list, image_size_len, args, last)

\* utils.group_ungroup_key_pressed is not among the sources: a click on the
\* cell that has focus (spec, ToggleGroup); nothing happens without one.
group_ungroup_key_pressed(n_cols, cols_max, image_list, image_size_len, args, last) ==
    LET clc == LastClickedOrOrigin(last)
    IN  IF "focus" \in args[clc[1] * cols_max + clc[2]]
        THEN image_cell_pressed(clc, n_cols, cols_max, image_list, image_size_len, args, last)
        ELSE Handled(args, clc, ZoomRaises(clc[2] + clc[1] * n_cols, image_list, image_size_len))


-----------------------------------------------------------------------------
(* Misc (utils.py) *)

Range(seq) == {seq[k] : k \in DOMAIN seq}

\* Mutant: a position counts over the whole list, masked images included.
MaskGroup_absolute(true_mask, group, i, available_count) ==
    [k \in DOMAIN true_mask |-> true_mask[k] \/ (k - 1) \in Range(group)]

RECURSIVE MaskGroup(_, _, _, _)
\* One group's pass over true_mask, from (1-based) index i on.
MaskGroup(true_mask, group, i, available_count) ==
    IF i > Len(true_mask) THEN true_mask
    ELSE IF ~true_mask[i]
    THEN MaskGroup(IF (available_count + 1) \in Range(group)
                   THEN [true_mask EXCEPT ![i] = TRUE] ELSE true_mask,
                   group, i + 1, available_count + 1)
    ELSE MaskGroup(true_mask, group, i + 1, available_count)

RECURSIVE MaskGroups_reset(_, _, _)
\* Mutant: true_mask is set to all False inside the loop over the groups.
MaskGroups_reset(true_mask, image_mask, g) ==
    IF g > Len(image_mask) THEN true_mask
    ELSE MaskGroups_reset(MaskGroup([i \in DOMAIN true_mask |-> FALSE], image_mask[g], 1, -1),
                          image_mask, g + 1)

RECURSIVE MaskGroups(_, _, _)
MaskGroups(true_mask, image_mask, g) ==
    IF g > Len(image_mask) THEN true_mask
    ELSE MaskGroups(MaskGroup(true_mask, image_mask[g], 1, -1), image_mask, g + 1)

\* Mutant: the mask is extended when a position lies past its end.
create_flat_mask_extends(image_mask, len_image_container) ==
    LET m == MaskGroups([i \in 1..len_image_container |-> FALSE], image_mask, 1)
    IN  IF \E g \in DOMAIN image_mask : \E p \in Range(image_mask[g]) : p >= len_image_container
        THEN Append(m, TRUE) ELSE m

\* Mutant: only the newest group of the history is masked.
create_flat_mask_newest_only(image_mask, len_image_container) ==
    MaskGroups([i \in 1..len_image_container |-> FALSE], image_mask,
               IF Len(image_mask) = 0 THEN 1 ELSE Len(image_mask))

create_flat_mask(image_mask, len_image_container) ==
    MaskGroups([i \in 1..len_image_container |-> FALSE], image_mask, 1)

RECURSIVE SumLen(_, _)
SumLen(groups, g) == IF g > Len(groups) THEN 0 ELSE Len(groups[g]) + SumLen(groups, g + 1)

\* Python's round() of the quotient a / b: to the nearest integer, a tie to the even one.
RoundHalfEven(a, b) ==
    LET q == a \div b
        r == a % b
    IN  IF 2 * r < b THEN q
        ELSE IF 2 * r > b THEN q + 1
        ELSE IF q % 2 = 0 THEN q ELSE q + 1

\* Defined for total_images # 0; the division raises ZeroDivisionError otherwise.
calc_percentage_complete(completed_groups, total_images) ==
    RoundHalfEven(100 * SumLen(completed_groups, 1), total_images)

\* [x for i, x in enumerate(list) if not mask[i]]
RECURSIVE Unmasked(_, _, _)
Unmasked(list, mask, i) ==
    IF i > Len(list) THEN << >>
    ELSE IF ~mask[i] THEN <<list[i]>> \o Unmasked(list, mask, i + 1)
    ELSE Unmasked(list, mask, i + 1)

EmptyHistory == [position |-> << >>, keep |-> << >>, filename |-> << >>]

\* "if image_path not in image_data: image_data[image_path] = {...}"
\* Mutant: the entry of the directory is added and every other entry emptied.
WithKey_empties_others(data, image_path) ==
    [k \in DOMAIN data \cup {image_path} |->
        IF k = image_path /\ k \in DOMAIN data THEN data[k] ELSE EmptyHistory]

WithKey(data, image_path) ==
    IF image_path \in DOMAIN data THEN data
    ELSE [k \in DOMAIN data \cup {image_path} |->
             IF k = image_path THEN EmptyHistory ELSE data[k]]


-----------------------------------------------------------------------------
(* Files and database (utils.py) *)

\* os.path.expanduser('~')
HOME == "/home/user"

\* The backup folder of a directory: IMAGE_BACKUP_PATH (under HOME) joined with
\* the directory's path relative to it.
get_backup_path(original_image_dir) == [root |-> HOME, relative_path |-> original_image_dir]

\* img_backup_path.replace(os.path.expanduser('~'), '~')
SoftCoded(path) == [path EXCEPT !.root = "~"]

send_to_database(table, image_path, filename_list, keep_list) ==
    table \o [i \in 1..Len(keep_list) |->
                 [filename |-> filename_list[i],
                  directory_name |-> SoftCoded(get_backup_path(image_path)),
                  keep |-> keep_list[i]]]

delete_from_database(table, image_path, filename_list) ==
    LET Stays(row) == ~(/\ row.directory_name = get_backup_path(image_path)
                        /\ row.filename \in Range(filename_list))
    IN  SelectSeq(table, Stays)

RECURSIVE RemoveDiscarded(_, _, _, _, _)
\* "for i, fname in enumerate(filename_list): if not keep_list[i]: os.remove(...)"
RemoveDiscarded(fs, image_path, filename_list, keep_list, i) ==
    IF i > Len(filename_list) THEN [files |-> fs, raised |-> None]
    ELSE IF keep_list[i] THEN RemoveDiscarded(fs, image_path, filename_list, keep_list, i + 1)
    ELSE IF image_path \in DOMAIN fs /\ filename_list[i] \in fs[image_path]
    THEN RemoveDiscarded([fs EXCEPT ![image_path] = @ \ {filename_list[i]}],
                         image_path, filename_list, keep_list, i + 1)
    ELSE [files |-> fs, raised |-> "FileNotFoundError"]

\* Mutant: the loop removes the files that are kept ("if keep_list[i]").
record_grouped_data_removes_kept(data, image_path, filename_list, keep_list, table, fs) ==
    LET removed == RemoveDiscarded(fs, image_path, filename_list,
                                   [i \in DOMAIN keep_list |-> ~keep_list[i]], 1)
    IN  [meta_data_file |-> <<data>>,
         database |-> send_to_database(table, image_path, filename_list, keep_list),
         files |-> removed.files,
         raised |-> removed.raised]

\* Mutant: the rows of the group are not inserted.
record_grouped_data_without_rows(data, image_path, filename_list, keep_list, table, fs) ==
    LET removed == RemoveDiscarded(fs, image_path, filename_list, keep_list, 1)
    IN  [meta_data_file |-> <<data>>,
         database |-> table,
         files |-> removed.files,
         raised |-> removed.raised]

record_grouped_data(data, image_path, filename_list, keep_list, table, fs) ==
    LET removed == RemoveDiscarded(fs, image_path, filename_list, keep_list, 1)
    IN  [meta_data_file |-> <<data>>,
         database |-> send_to_database(table, image_path, filename_list, keep_list),
         files |-> removed.files,
         raised |-> removed.raised]

RECURSIVE RestoreFiles(_, _, _, _, _)
\* "for i, fname in enumerate(filename_list): shutil.copyfile(backup, original)"
RestoreFiles(fs, bk, image_path, filename_list, i) ==
    IF i > Len(filename_list) THEN [files |-> fs, raised |-> None]
    ELSE IF /\ image_path \in DOMAIN bk
            /\ filename_list[i] \in bk[image_path]
            /\ image_path \in DOMAIN fs
    THEN RestoreFiles([fs EXCEPT ![image_path] = @ \cup {filename_list[i]}],
                      bk, image_path, filename_list, i + 1)
    ELSE [files |-> fs, raised |-> "FileNotFoundError"]

undo_last_group(data, image_path, filename_list, table, fs, bk) ==
    LET restored == RestoreFiles(fs, bk, image_path, filename_list, 1)
    IN  [meta_data_file |-> <<data>>,
         database |-> delete_from_database(table, image_path, filename_list),
         files |-> restored.files,
         raised |-> restored.raised]


-----------------------------------------------------------------------------
(* The directories of the operator's disk *)

ImageNames == <<"img1.jpg", "img2.jpg", "img3.jpg", "img4.jpg", "img5.jpg", "img6.jpg",
                "img7.jpg", "img8.jpg", "img9.jpg", "img10.jpg", "img11.jpg", "img12.jpg">>
DefaultNames == <<"default1.jpg", "default2.jpg", "default3.jpg", "default4.jpg">>

\* "A" holds images, "E" holds none, "M" does not exist.
ExistingDirs == {"A", "E"}
LoadableDirs == {"A", "E", "M"}

\* The image files of a directory, sorted by the date they were taken.
DirImages(image_dir) ==
    IF image_dir = "A" THEN SubSeq(ImageNames, 1, MaxImages) ELSE << >>

\* "while len(image_list) < ROWS_MAX*COLS_MAX: image_list.append(EMPTY_IMG_PATH)"
Padded(image_list) ==
    image_list \o [k \in 1..(IF Len(image_list) < N_GRID THEN N_GRID - Len(image_list) ELSE 0)
                     |-> EMPTY_IMG_FNAME]

\* config.IMAGE_SRCS and N_IMG_SRCS
IMAGE_SRCS == Padded(SubSeq(DefaultNames, 1, MaxDefaultImages))
N_IMG_SRCS == MaxDefaultImages

-----------------------------------------------------------------------------
(* complete_or_undo_image_group (selector_app.py) *)

\* The filenames of the image container that the history has not masked yet.
UnmaskedFilenames(image_list, data, image_path) ==
    Unmasked(image_list,
             create_flat_mask(WithKey(data, image_path)[image_path].position, Len(image_list)), 1)

NoGroup == [grouped_cell_positions |-> << >>, grouped_cell_keeps |-> << >>,
            grouped_filenames |-> << >>, focus |-> << >>]

RECURSIVE CollectGroup_counts_every_cell(_, _, _, _, _, _)
\* Mutant: a grouped cell past the end of the unmasked list adds its position.
CollectGroup_counts_every_cell(k, acc, n_rows, n_cols, args, unmasked_img_filenames) ==
    IF k >= n_rows * n_cols THEN acc
    ELSE LET i == k \div n_cols
             j == k % n_cols
             my_class == args[j + i * COLS_MAX]
             list_pos == j + i * n_rows
             inside == list_pos < Len(unmasked_img_filenames)
             image_filename == IF inside THEN unmasked_img_filenames[list_pos + 1]
                               ELSE EMPTY_IMG_FNAME
             on == "grouped-on" \in my_class
         IN  CollectGroup_counts_every_cell(k + 1,
                [grouped_cell_positions |->
                    IF on THEN Append(acc.grouped_cell_positions, list_pos)
                    ELSE acc.grouped_cell_positions,
                 grouped_filenames |->
                    IF on THEN Append(acc.grouped_filenames, image_filename)
                    ELSE acc.grouped_filenames,
                 focus |->
                    IF "focus" \in my_class /\ inside THEN <<list_pos, image_filename>>
                    ELSE acc.focus,
                 grouped_cell_keeps |->
                    IF "keep" \in my_class /\ inside THEN Append(acc.grouped_cell_keeps, TRUE)
                    ELSE IF "delete" \in my_class /\ inside THEN Append(acc.grouped_cell_keeps, FALSE)
                    ELSE acc.grouped_cell_keeps],
                n_rows, n_cols, args, unmasked_img_filenames)

RECURSIVE CollectGroup_transposed(_, _, _, _, _, _)
\* Mutant: the position of a cell is row + col*n_rows.
CollectGroup_transposed(k, acc, n_rows, n_cols, args, unmasked_img_filenames) ==
    IF k >= n_rows * n_cols THEN acc
    ELSE LET i == k \div n_cols
             j == k % n_cols
             my_class == args[j + i * COLS_MAX]
             list_pos == i + j * n_rows
         IN  IF list_pos >= Len(unmasked_img_filenames)
             THEN CollectGroup_transposed(k + 1, acc, n_rows, n_cols, args, unmasked_img_filenames)
             ELSE LET image_filename == unmasked_img_filenames[list_pos + 1]
                      on == "grouped-on" \in my_class
                  IN  CollectGroup_transposed(k + 1,
                        [grouped_cell_positions |->
                            IF on THEN Append(acc.grouped_cell_positions, list_pos)
                            ELSE acc.grouped_cell_positions,
                         grouped_filenames |->
                            IF on THEN Append(acc.grouped_filenames, image_filename)
                            ELSE acc.grouped_filenames,
                         focus |->
                            IF "focus" \in my_class THEN <<list_pos, image_filename>>
                            ELSE acc.focus,
                         grouped_cell_keeps |->
                            IF "keep" \in my_class THEN Append(acc.grouped_cell_keeps, TRUE)
                            ELSE IF "delete" \in my_class THEN Append(acc.grouped_cell_keeps, FALSE)
                            ELSE acc.grouped_cell_keeps],
                        n_rows, n_cols, args, unmasked_img_filenames)

RECURSIVE CollectGroup(_, _, _, _, _, _)
\* The double loop over the visible cells, from cell number k = i*n_cols + j on.
CollectGroup(k, acc, n_rows, n_cols, args, unmasked_img_filenames) ==
    IF k >= n_rows * n_cols THEN acc
    ELSE LET i == k \div n_cols
             j == k % n_cols
             my_class == args[j + i * COLS_MAX]
             list_pos == j + i * n_rows
         IN  IF list_pos >= Len(unmasked_img_filenames)
             THEN CollectGroup(k + 1, acc, n_rows, n_cols, args, unmasked_img_filenames)
             ELSE LET image_filename == unmasked_img_filenames[list_pos + 1]
                      on == "grouped-on" \in my_class
                  IN  CollectGroup(k + 1,
                        [grouped_cell_positions |->
                            IF on THEN Append(acc.grouped_cell_positions, list_pos)
                            ELSE acc.grouped_cell_positions,
                         grouped_filenames |->
                            IF on THEN Append(acc.grouped_filenames, image_filename)
                            ELSE acc.grouped_filenames,
                         focus |->
                            IF "focus" \in my_class THEN <<list_pos, image_filename>>
                            ELSE acc.focus,
                         grouped_cell_keeps |->
                            IF "keep" \in my_class THEN Append(acc.grouped_cell_keeps, TRUE)
                            ELSE IF "delete" \in my_class THEN Append(acc.grouped_cell_keeps, FALSE)
                            ELSE acc.grouped_cell_keeps],
                        n_rows, n_cols, args, unmasked_img_filenames)

\* Mutant: the shortcut for the focused image does not ask that no cell is grouped.
GroupToComplete_focus_regardless(n_rows, n_cols, args, unmasked_img_filenames) ==
    LET got == CollectGroup(0, NoGroup, n_rows, n_cols, args, unmasked_img_filenames)
    IN  IF /\ Len(got.grouped_cell_positions) > 0
           /\ Len(got.grouped_cell_positions) = Len(got.grouped_cell_keeps)
        THEN [position |-> got.grouped_cell_positions,
              keep |-> got.grouped_cell_keeps,
              filename |-> got.grouped_filenames]
        ELSE IF got.focus # << >>
        THEN [position |-> <<got.focus[1]>>, keep |-> <<TRUE>>, filename |-> <<got.focus[2]>>]
        ELSE EmptyHistory

\* The group a press of 'complete-group' would record: its three lists, or
\* NoGroup when neither check passes (PreventUpdate).
GroupToComplete(n_rows, n_cols, args, unmasked_img_filenames) ==
    LET got == CollectGroup(0, NoGroup, n_rows, n_cols, args, unmasked_img_filenames)
    IN  IF /\ Len(got.grouped_cell_positions) > 0
           /\ Len(got.grouped_cell_positions) = Len(got.grouped_cell_keeps)
        THEN [position |-> got.grouped_cell_positions,
              keep |-> got.grouped_cell_keeps,
              filename |-> got.grouped_filenames]
        ELSE IF Len(got.grouped_cell_positions) = 0 /\ got.focus # << >>
        THEN [position |-> <<got.focus[1]>>, keep |-> <<TRUE>>, filename |-> <<got.focus[2]>>]
        ELSE EmptyHistory

\* Mutant: the keep flags of the group are not appended.
AppendGroup_without_keep(data, image_path, group) ==
    [data EXCEPT ![image_path] = [position |-> Append(@.position, group.position),
                                  keep |-> @.keep,
                                  filename |-> Append(@.filename, group.filename)]]

\* image_data[image_path][...].append(...)
AppendGroup(data, image_path, group) ==
    [data EXCEPT ![image_path] = [position |-> Append(@.position, group.position),
                                  keep |-> Append(@.keep, group.keep),
                                  filename |-> Append(@.filename, group.filename)]]

Front(seq) == SubSeq(seq, 1, Len(seq) - 1)

\* The three pops of the undo branch; the first one on an empty list raises
\* IndexError, which ends the try block.
PopGroup(data, image_path) ==
    LET h == data[image_path]
    IN  IF Len(h.position) = 0 THEN data
        ELSE IF Len(h.keep) = 0
        THEN [data EXCEPT ![image_path].position = Front(@)]
        ELSE [data EXCEPT ![image_path] = [position |-> Front(@.position),
                                           keep |-> Front(@.keep),
                                           filename |-> Front(@.filename)]]

\* Whether the three pops all succeeded (filenames_undo is then bound).
Popped(data, image_path) ==
    LET h == data[image_path]
    IN  Len(h.position) > 0 /\ Len(h.keep) > 0 /\ Len(h.filename) > 0

-----------------------------------------------------------------------------
(* State *)

Init ==
    /\ classes = create_image_grid(ROWS_MAX, COLS_MAX)
    /\ cell_last_clicked = NoCell
    /\ choose_grid_size = InitGridSize
    /\ image_container = IMAGE_SRCS
    /\ n_image_sizes = N_IMG_SRCS
    /\ image_data = [k \in {IGNORE} |-> EmptyHistory]
    /\ loaded_image_path = IGNORE
    /\ n_images = N_IMG_SRCS
    /\ progress_bar = 0
    /\ meta_data_file = << >>
    /\ database = << >>
    /\ files = [d \in ExistingDirs |-> Range(DirImages(d))]
    /\ backup = [d \in {} |-> {}]
    /\ last_callback = [name |-> "layout", raised |-> None, reset |-> None]
    /\ n_actions = 0

\* One more user event, while the run has some left.
UserEvent == n_actions < MaxActions /\ n_actions' = n_actions + 1

Ended(name, raised, reset) == last_callback' = [name |-> name, raised |-> raised, reset |-> reset]

-----------------------------------------------------------------------------
(* activate_deactivate_cells (selector_app.py) *)

FlatMask(data, image_path, image_list) ==
    create_flat_mask(WithKey(data, image_path)[image_path].position, Len(image_list))

\* image_list and image_size_list with the masked images removed
MaskedImageList(data, image_path, image_list) ==
    Unmasked(image_list, FlatMask(data, image_path, image_list), 1)

MaskedSizeLen(data, image_path, image_list, size_len) ==
    LET flat_mask == FlatMask(data, image_path, image_list)
    IN  Cardinality({i \in 1..Min(size_len, Len(image_list)) : ~flat_mask[i]})

\* Mutant: a change of the meta data does not lay the grid out anew.
ResetGrid_keeps_classes(data, image_path, image_list, size_len, last) ==
    Handled(classes, <<0, 0>>, None)

\* A change of the grid size, of the image container or of the meta data:
\* create_reactive_image_grid lays the grid out anew and the branch "Reset the
\* grid" returns resize_grid_pressed, unless reading the zoomed image raises.
ResetGrid(data, image_path, image_list, size_len, last) ==
    LET r == resize_grid_pressed(MaskedImageList(data, image_path, image_list),
                                 MaskedSizeLen(data, image_path, image_list, size_len),
                                 ROWS_MAX, COLS_MAX)
    IN  IF r.raised = None THEN r
        ELSE Handled(create_image_grid(ROWS_MAX, COLS_MAX), last, r.raised)

\* A button of the grid callback was pressed: its handler's result is returned,
\* or the callback raises and no output changes.
GridCallback(name, r) ==
    /\ UserEvent
    /\ classes' = IF r.raised = None THEN r.classes ELSE classes
    /\ cell_last_clicked' = IF r.raised = None THEN r.cell_last_clicked ELSE cell_last_clicked
    /\ Ended(name, r.raised, None)
    /\ UNCHANGED <<choose_grid_size, store_vars, image_data, progress_bar, disk_vars>>

ImageList == MaskedImageList(image_data, loaded_image_path, image_container)
ImageSizeLen == MaskedSizeLen(image_data, loaded_image_path, image_container, n_image_sizes)

CellClick ==
    \E i \in 0..(choose_grid_size - 1), j \in 0..(choose_grid_size - 1) :
        GridCallback("grid-button",
            image_cell_pressed(<<i, j>>, choose_grid_size, COLS_MAX, ImageList, ImageSizeLen,
                               classes, cell_last_clicked))

\* The 'select-row-upto-N-button's pressed in the model: N up to the grid's
\* side, and the two largest (9 and 1000).
SelectRowButtons == (1..ROWS_MAX) \cup {9, 1000}

SelectRowsUpTo ==
    \E n \in SelectRowButtons :
        GridCallback("select-row-upto",
            toggle_group_in_first_n_rows(n, choose_grid_size, ROWS_MAX, COLS_MAX, ImageList,
                                         ImageSizeLen, classes, cell_last_clicked))

MoveButtons == {"move-left", "move-right", "move-up", "move-down"}

DirectionalMove ==
    \E button_id \in MoveButtons :
        GridCallback("move",
            direction_key_pressed(button_id, choose_grid_size, choose_grid_size, COLS_MAX,
                                  ImageList, ImageSizeLen, classes, cell_last_clicked))

JumpSizes == 2..7

JumpMove ==
    \E jump_left \in BOOLEAN, n_cells \in JumpSizes :
        GridCallback("jump",
            jump_focus_n_cells(jump_left, n_cells, choose_grid_size, choose_grid_size, COLS_MAX,
                               ImageList, ImageSizeLen, classes, cell_last_clicked))

KeepDelete ==
    \E button_id \in {"keep-button", "delete-button"} :
        GridCallback(button_id,
            keep_delete_pressed(button_id, choose_grid_size, COLS_MAX, ImageList, ImageSizeLen,
                                classes, cell_last_clicked))

ToggleGroup ==
    GridCallback("group-button",
        group_ungroup_key_pressed(choose_grid_size, COLS_MAX, ImageList, ImageSizeLen,
                                  classes, cell_last_clicked))

\* Another size is chosen in the dropdown.
Resize ==
    \E size \in GridSizes \ {choose_grid_size} :
        LET r == ResetGrid(image_data, loaded_image_path, image_container, n_image_sizes,
                           cell_last_clicked)
        IN  /\ UserEvent
            /\ choose_grid_size' = size
            /\ classes' = r.classes
            /\ cell_last_clicked' = r.cell_last_clicked
            /\ Ended("choose-grid-size", None, IF r.raised = None THEN "reset" ELSE r.raised)
            /\ UNCHANGED <<store_vars, image_data, progress_bar, disk_vars>>

-----------------------------------------------------------------------------
(* load_images (selector_app.py) *)

\* The images a directory holds now, in date order.
Listing(fs, image_dir) == SelectSeq(DirImages(image_dir), LAMBDA f : f \in fs[image_dir])

\* 'confirm-load-directory' pressed with image_dir chosen in the dropdown.
LoadImages ==
    \E image_dir \in LoadableDirs :
        /\ UserEvent
        /\ IF image_dir \in DOMAIN backup
           THEN \* os.makedirs(backup_path, exist_ok=False) raises
                /\ Ended("confirm-load-directory", "FileExistsError", None)
                /\ UNCHANGED <<grid_vars, choose_grid_size, store_vars, image_data,
                               progress_bar, disk_vars>>
           ELSE LET found == image_dir \in DOMAIN files
                    image_list == IF found THEN Listing(files, image_dir) ELSE << >>
                    container == IF found THEN Padded(image_list) ELSE << >>
                    path == IF found THEN image_dir ELSE IGNORE
                    r == ResetGrid(image_data, path, container, Len(container), cell_last_clicked)
                IN  /\ backup' = [d \in DOMAIN backup \cup {image_dir} |->
                                     IF d = image_dir THEN Range(image_list) ELSE backup[d]]
                    /\ image_container' = container
                    /\ n_image_sizes' = Len(container)
                    /\ loaded_image_path' = path
                    /\ n_images' = Len(image_list)
                    /\ classes' = r.classes
                    /\ cell_last_clicked' = r.cell_last_clicked
                    /\ Ended("confirm-load-directory", None,
                             IF r.raised = None THEN "reset" ELSE r.raised)
                    /\ UNCHANGED <<choose_grid_size, image_data, progress_bar,
                                   meta_data_file, database, files>>

-----------------------------------------------------------------------------
(* complete_or_undo_image_group (selector_app.py): the two buttons *)

\* The callback returned (image_data, pct_complete): both outputs are set and
\* the change of 'image-meta-data' resets the grid.
Returned(name, data) ==
    LET r == ResetGrid(data, loaded_image_path, image_container, n_image_sizes, cell_last_clicked)
    IN  /\ image_data' = data
        /\ progress_bar' = calc_percentage_complete(data[loaded_image_path].position, n_images)
        /\ classes' = r.classes
        /\ cell_last_clicked' = r.cell_last_clicked
        /\ Ended(name, None, IF r.raised = None THEN "reset" ELSE r.raised)

\* The callback raised: no output is set.
Raised(name, raised) ==
    /\ Ended(name, raised, None)
    /\ UNCHANGED <<grid_vars, image_data, progress_bar>>

CompleteGroup ==
    LET image_path == loaded_image_path
        data == WithKey(image_data, image_path)
        unmasked_img_filenames == UnmaskedFilenames(image_container, image_data, image_path)
        group == GroupToComplete(choose_grid_size, choose_grid_size, classes, unmasked_img_filenames)
        new_data == AppendGroup(data, image_path, group)
        rec == record_grouped_data(new_data, image_path, group.filename, group.keep, database, files)
    IN  /\ UserEvent
        /\ UNCHANGED <<choose_grid_size, store_vars, backup>>
        /\ IF group = EmptyHistory
           THEN /\ Raised("complete-group", "PreventUpdate")
                /\ UNCHANGED <<meta_data_file, database, files>>
           ELSE /\ meta_data_file' = IF demo THEN meta_data_file ELSE rec.meta_data_file
                /\ database' = IF demo THEN database ELSE rec.database
                /\ files' = IF demo THEN files ELSE rec.files
                /\ IF ~demo /\ rec.raised # None THEN Raised("complete-group", rec.raised)
                   ELSE IF n_images = 0 THEN Raised("complete-group", "ZeroDivisionError")
                   ELSE Returned("complete-group", new_data)

Undo ==
    LET image_path == loaded_image_path
        data == WithKey(image_data, image_path)
        popped == Popped(data, image_path)
        new_data == PopGroup(data, image_path)
        filenames_undo == data[image_path].filename[Len(data[image_path].filename)]
        und == undo_last_group(new_data, image_path, filenames_undo, database, files, backup)
    IN  /\ UserEvent
        /\ UNCHANGED <<choose_grid_size, store_vars, backup>>
        /\ IF popped /\ ~demo
           THEN /\ meta_data_file' = und.meta_data_file
                /\ database' = und.database
                /\ files' = und.files
           ELSE UNCHANGED <<meta_data_file, database, files>>
        /\ IF popped /\ ~demo /\ und.raised # None THEN Raised("undo-button", und.raised)
           ELSE IF n_images = 0 THEN Raised("undo-button", "ZeroDivisionError")
           ELSE Returned("undo-button", new_data)

-----------------------------------------------------------------------------

Next ==
    \/ CellClick
    \/ SelectRowsUpTo
    \/ DirectionalMove
    \/ JumpMove
    \/ KeepDelete
    \/ ToggleGroup
    \/ Resize
    \/ LoadImages
    \/ CompleteGroup
    \/ Undo

Spec == Init /\ [][Next]_vars

-----------------------------------------------------------------------------
(* Properties *)

GridCells == DOMAIN classes
HasFocus(idx) == "focus" \in classes[idx]
IsGrouped(idx) == "grouped-on" \in classes[idx]
IsLabelled(idx) == "keep" \in classes[idx] \/ "delete" \in classes[idx]
FocusCount == Cardinality({idx \in GridCells : HasFocus(idx)})

\* C1: in every reachable state no cell of the grid carries a keep or delete
\* label while it is not grouped.
C1_LabelImpliesGrouped ==
    \A idx \in GridCells :
        IsLabelled(idx) => ("grouped-on" \in classes[idx] /\ "grouped-off" \notin classes[idx])

\* A grouped cell has just been given a label by the keep or delete button.
C1_Witness ==
    /\ last_callback.name \in {"keep-button", "delete-button"}
    /\ \E idx \in GridCells : IsLabelled(idx) /\ IsGrouped(idx)

\* C2: in every reachable state at most one cell of the whole grid has focus.
C2_AtMostOneFocus == FocusCount <= 1

\* A click has moved the focus to a cell other than the top-left one.
C2_Witness ==
    /\ last_callback = [name |-> "grid-button", raised |-> None, reset |-> None]
    /\ FocusCount = 1
    /\ ~HasFocus(0)

FocusCell == CHOOSE idx \in GridCells : HasFocus(idx)
Returns(name) == last_callback'.name = name /\ last_callback'.raised = None

\* C3 as stated: once an interaction has occurred exactly one cell has focus
\* (no focus only right after a Resize onto an empty visible rectangle, which
\* the padded image container never gives).
C3_ExactlyOneFocus == n_actions > 0 => FocusCount = 1

\* C3, amended: the grid has one focused cell or none.  Every reset of the
\* grid gives the top-left cell the focus, and the focus is lost (one focused
\* cell, then none) only by a click or the group button on the focused cell
\* while it is grouped, which ungroups that cell.
C3_FocusLostOnlyByUngroup ==
    /\ [](FocusCount \in {0, 1})
    /\ [][last_callback'.reset # None => (FocusCount' = 1 /\ "focus" \in classes'[0])]_vars
    /\ [][(FocusCount = 1 /\ FocusCount' = 0) =>
            /\ Returns("grid-button") \/ Returns("group-button")
            /\ IsGrouped(FocusCell)
            /\ classes'[FocusCell] = {"grouped-off"}
            /\ cell_last_clicked' = <<FocusCell \div COLS_MAX, FocusCell % COLS_MAX>>]_vars

\* A click on the focused, grouped cell has left the grid without focus.
C3_Witness ==
    /\ last_callback = [name |-> "grid-button", raised |-> None, reset |-> None]
    /\ FocusCount = 0

-----------------------------------------------------------------------------
(* Commit and undo *)

\* The cells of the visible n_rows x n_cols rectangle, by flat index.
VisibleCells ==
    {i * COLS_MAX + j : i \in 0..(choose_grid_size - 1), j \in 0..(choose_grid_size - 1)}
\* The position of a visible cell in the list of unmasked images.
ListPos(idx) == (idx % COLS_MAX) + (idx \div COLS_MAX) * choose_grid_size
UnmaskedNow == UnmaskedFilenames(image_container, image_data, loaded_image_path)
\* The cell shows an image of that list (its position is valid).
ShowsImage(idx) == ListPos(idx) < Len(UnmaskedNow)
GroupedVisible == {idx \in VisibleCells : IsGrouped(idx) /\ ShowsImage(idx)}
FocusedVisible == {idx \in VisibleCells : HasFocus(idx) /\ ShowsImage(idx)}

\* The history of the loaded directory in the Store 'image-meta-data'.
History(data) == WithKey(data, loaded_image_path)[loaded_image_path]
LastEntry(h) == [position |-> h.position[Len(h.position)],
                 keep |-> h.keep[Len(h.keep)],
                 filename |-> h.filename[Len(h.filename)]]
WithoutLastEntry(h) == [position |-> Front(h.position), keep |-> Front(h.keep),
                        filename |-> Front(h.filename)]
HistoryGrew == Len(History(image_data').position) = Len(History(image_data).position) + 1

\* A directory has been loaded (the Stores start with the key '__ignore').
Loaded == loaded_image_path # IGNORE
Commits == last_callback'.name = "complete-group"
Undoes == last_callback'.name = "undo-button"

RECURSIVE GroupedPositionsFrom(_)
\* The positions of the grouped visible cells from position k on, row by row.
GroupedPositionsFrom(k) ==
    IF k >= choose_grid_size * choose_grid_size \/ k >= Len(UnmaskedNow) THEN << >>
    ELSE (IF IsGrouped((k \div choose_grid_size) * COLS_MAX + (k % choose_grid_size))
          THEN <<k>> ELSE << >>) \o GroupedPositionsFrom(k + 1)

\* C4: in a loaded directory, a commit requested while some visible cell is
\* grouped appends an entry to the history of the directory if and only if every grouped visible cell
\* has a keep or delete label, and the entry lists the positions of exactly
\* the grouped cells in row-major order.
C4_CommitAppendsIffLabelled ==
    [][(Loaded /\ Commits /\ GroupedVisible # {}) =>
          /\ HistoryGrew <=> \A idx \in GroupedVisible : IsLabelled(idx)
          /\ HistoryGrew =>
                LastEntry(History(image_data')).position = GroupedPositionsFrom(0)]_vars

\* C5: a commit that satisfies neither validity rule (a grouped visible cell
\* has no label, or no visible cell is grouped and no focused cell is at a
\* valid position) changes nothing: history, progress, JSON snapshot, rows,
\* files, backup and grid stay as they were.
C5_InvalidCommitIsNoOp ==
    [][(/\ Commits
        /\ \/ \E idx \in GroupedVisible : ~IsLabelled(idx)
           \/ GroupedVisible = {} /\ FocusedVisible = {})
       => UNCHANGED <<image_data, progress_bar, meta_data_file, database, files,
                      backup, classes, cell_last_clicked>>]_vars

\* A commit has just been refused while a grouped cell had no label.
C5_Witness ==
    /\ last_callback.name = "complete-group"
    /\ last_callback.raised = "PreventUpdate"
    /\ \E idx \in GroupedVisible : ~IsLabelled(idx)

\* C6: in a loaded directory, a commit requested with no grouped cell and a
\* focused cell at a valid position appends exactly one entry, with the position of the focused cell,
\* keep = [True] and the image at that position, and deletes no file.
C6_FocusShortcutKeepsOne ==
    [][(/\ Loaded /\ Commits
        /\ \A idx \in VisibleCells : ~IsGrouped(idx)
        /\ FocusedVisible # {})
       => LET idx == CHOOSE idx \in FocusedVisible : TRUE
          IN  /\ HistoryGrew
              /\ LastEntry(History(image_data')) =
                     [position |-> <<ListPos(idx)>>, keep |-> <<TRUE>>,
                      filename |-> <<UnmaskedNow[ListPos(idx) + 1]>>]
              /\ files' = files]_vars

\* C7: a commit that succeeds removes from the working directory exactly the
\* files of the committed group whose keep flag is false; every other file of
\* every directory stays, and every removed file is in the backup tree.
C7_CommitRemovesDiscardedOnly ==
    [][(Commits /\ last_callback'.raised = None) =>
          LET e == LastEntry(History(image_data'))
              discarded == {e.filename[i] : i \in {i \in DOMAIN e.filename : ~e.keep[i]}}
          IN  /\ DOMAIN files' = DOMAIN files
              /\ \A d \in DOMAIN files :
                    files'[d] = IF d = loaded_image_path THEN files[d] \ discarded ELSE files[d]
              /\ \A f \in discarded :
                    /\ loaded_image_path \in DOMAIN files /\ f \in files[loaded_image_path]
                    /\ loaded_image_path \in DOMAIN backup' /\ f \in backup'[loaded_image_path]]_vars

\* A commit has succeeded and discarded a file, which the backup still holds.
C7_Witness ==
    /\ last_callback.name = "complete-group"
    /\ last_callback.raised = None
    /\ Len(History(image_data).keep) > 0
    /\ LET e == LastEntry(History(image_data))
       IN  \E i \in DOMAIN e.keep :
              /\ ~e.keep[i]
              /\ e.filename[i] \notin files[loaded_image_path]
              /\ e.filename[i] \in backup[loaded_image_path]

\* C8: an undo on a loaded directory with a non-empty history removes exactly the
\* most recent entry from each of the three lists and leaves the earlier
\* entries as they were.
C8_UndoPopsLastEntry ==
    [][(Loaded /\ Undoes /\ Len(History(image_data).position) > 0) =>
          History(image_data') = WithoutLastEntry(History(image_data))]_vars

\* C9: an undo on a loaded directory with an empty history raises no error and
\* leaves the history, the JSON snapshot, the rows and the files unchanged
\* (the claim adds the grid, which is not needed to decide it).
C9_UndoOnEmptyHistoryIsSilent ==
    [][(Loaded /\ Undoes /\ Len(History(image_data).position) = 0) =>
          /\ last_callback'.raised = None
          /\ History(image_data') = History(image_data)
          /\ UNCHANGED <<meta_data_file, database, files>>]_vars

\* C10: in a loaded directory, an undo that follows a successful commit at
\* once restores the history the commit appended to, the JSON snapshot of it,
\* and the mask computed from it.
C10_CommitThenUndoRestores ==
    [][(/\ Loaded
        /\ last_callback.name = "complete-group" /\ last_callback.raised = None
        /\ Undoes)
       => /\ History(image_data') = WithoutLastEntry(History(image_data))
          /\ meta_data_file' = <<image_data'>>
          /\ FlatMask(image_data', loaded_image_path, image_container) =
                 create_flat_mask(Front(History(image_data).position), Len(image_container))]_vars

\* The step is an undo that follows a commit which returned.
UndoesCommit ==
    /\ last_callback.name = "complete-group" /\ last_callback.raised = None
    /\ Undoes

\* C11: in a loaded directory, an undo that returns has deleted from the
\* table the rows its commit inserted, so that the table has as many rows as
\* before that commit.
C11_UndoDeletesRows ==
    [][(Loaded /\ UndoesCommit /\ last_callback'.raised = None) =>
          Len(database') = Len(database) - Len(LastEntry(History(image_data)).filename)]_vars

\* C12: in a loaded directory, after an undo that pops a group every file
\* named in the popped group is in the working directory (those the commit
\* deleted are copied back from the backup, those it kept are still there).
C12_UndoRestoresFiles ==
    [][(Loaded /\ Undoes /\ Len(History(image_data).filename) > 0) =>
          \A f \in Range(LastEntry(History(image_data)).filename) :
              f \in files'[loaded_image_path]]_vars

-----------------------------------------------------------------------------
(* create_flat_mask on its own: the image container has any length up to    *)
(* MaxMaskLen and any group is appended to the history of positions.        *)

RECURSIVE SortedSeq(_)
\* The numbers of a set in increasing order, as the commit loop lists positions.
SortedSeq(S) ==
    IF S = {} THEN << >>
    ELSE LET least == CHOOSE x \in S : \A y \in S : x <= y
         IN  <<least>> \o SortedSeq(S \ {least})

\* create_flat_mask tests "available_count in group": only the set of the
\* positions of a group matters.
PositionGroups ==
    {SortedSeq(S) : S \in {T \in SUBSET (0..MaxPosition) :
                              Cardinality(T) >= 1 /\ Cardinality(T) <= MaxGroupLen}}

MaskInit ==
    /\ \E len_image_container \in 0..MaxMaskLen :
          image_container = [k \in 1..len_image_container |-> EMPTY_IMG_FNAME]
    /\ image_data = [k \in {IGNORE} |-> EmptyHistory]
    /\ classes = create_image_grid(ROWS_MAX, COLS_MAX)
    /\ cell_last_clicked = NoCell
    /\ choose_grid_size = InitGridSize
    /\ n_image_sizes = 0
    /\ loaded_image_path = IGNORE
    /\ n_images = 0
    /\ progress_bar = 0
    /\ meta_data_file = << >>
    /\ database = << >>
    /\ files = [d \in ExistingDirs |-> Range(DirImages(d))]
    /\ backup = [d \in {} |-> {}]
    /\ last_callback = [name |-> "layout", raised |-> None, reset |-> None]
    /\ n_actions = 0

\* One more group of positions in the history that create_flat_mask is given.
AppendPositions ==
    \E group \in PositionGroups :
        /\ Len(image_data[IGNORE].position) < MaxGroups
        /\ image_data' = [image_data EXCEPT ![IGNORE].position = Append(@, group)]
        /\ n_actions' = n_actions + 1
        /\ UNCHANGED <<classes, cell_last_clicked, choose_grid_size, store_vars,
                       progress_bar, disk_vars, last_callback>>

MaskNext == AppendPositions

MaskSpec == MaskInit /\ [][MaskNext]_vars

PositionHistory == image_data[IGNORE].position
MaskOf(image_mask) == create_flat_mask(image_mask, Len(image_container))
\* The number of unmasked entries before entry i: its 0-based rank among them.
RankUnmasked(mask, i) == Cardinality({j \in 1..(i - 1) : ~mask[j]})
CountOf(mask, b) == Cardinality({i \in DOMAIN mask : mask[i] = b})

\* C13: create_flat_mask applies the groups oldest first, and a position k of
\* a group masks the k-th (0-based) image still unmasked before that group:
\* the mask of a history with one more group is the mask of the history with
\* exactly the unmasked entries of the listed ranks set to true.  The three
\* examples of the docstring come out as written.
C13_MaskByRankAmongUnmasked ==
    /\ create_flat_mask(<<<<0, 1>>, <<0, 1, 2>>>>, 9) =
           <<TRUE, TRUE, TRUE, TRUE, TRUE, FALSE, FALSE, FALSE, FALSE>>
    /\ create_flat_mask(<<<<7, 8>>, <<0, 1, 3, 4>>>>, 10) =
           <<TRUE, TRUE, FALSE, TRUE, TRUE, FALSE, FALSE, TRUE, TRUE, FALSE>>
    /\ create_flat_mask(<<<<0, 1>>, <<1, 2, 3>>, <<1>>>>, 10) =
           <<TRUE, TRUE, FALSE, TRUE, TRUE, TRUE, TRUE, FALSE, FALSE, FALSE>>
    /\ [][LET before == MaskOf(PositionHistory)
              group == image_data'[IGNORE].position[Len(image_data'[IGNORE].position)]
          IN  MaskOf(image_data'[IGNORE].position) =
                  [i \in 1..Len(image_container) |->
                      before[i] \/ RankUnmasked(before, i) \in Range(group)]]_vars

\* A second group has masked an image further down than its position says.
C13_Witness ==
    /\ Len(PositionHistory) = 2
    /\ PositionHistory[2] = <<0>>
    /\ Len(image_container) >= 3
    /\ MaskOf(PositionHistory)[3]

\* C14: the masks of the growing prefixes of a history never decrease: an
\* entry that is true for a prefix of the history is true for the history
\* (and so, every prefix being a history itself, for every longer prefix).
C14_MaskMonotone ==
    LET whole == MaskOf(PositionHistory)
    IN  \A k \in 0..Len(PositionHistory) :
            LET prefix == MaskOf(SubSeq(PositionHistory, 1, k))
            IN  \A i \in 1..Len(image_container) : prefix[i] => whole[i]

\* The second group has masked more, and what the first masked is still masked.
C14_Witness ==
    /\ Len(PositionHistory) = 2
    /\ CountOf(MaskOf(SubSeq(PositionHistory, 1, 1)), TRUE) >= 1
    /\ CountOf(MaskOf(PositionHistory), TRUE) > CountOf(MaskOf(SubSeq(PositionHistory, 1, 1)), TRUE)

\* C15: the mask always has as many entries as the image container, all of
\* them booleans, and a group masks one more image for each of its positions
\* that is smaller than the number of images still unmasked, and none for the others.
C15_MaskLengthAndRange ==
    /\ [](/\ Len(MaskOf(PositionHistory)) = Len(image_container)
          /\ \A i \in DOMAIN MaskOf(PositionHistory) : MaskOf(PositionHistory)[i] \in BOOLEAN)
    /\ [][LET before == MaskOf(PositionHistory)
              group == image_data'[IGNORE].position[Len(image_data'[IGNORE].position)]
          IN  CountOf(MaskOf(image_data'[IGNORE].position), TRUE) =
                  CountOf(before, TRUE)
                  + Cardinality({p \in Range(group) : p < CountOf(before, FALSE)})]_vars

\* A group held a position past the images still unmasked, and masked nothing.
C15_Witness ==
    /\ Len(PositionHistory) >= 1
    /\ LET before == MaskOf(Front(PositionHistory))
           group == PositionHistory[Len(PositionHistory)]
       IN  /\ \A p \in Range(group) : p >= CountOf(before, FALSE)
           /\ MaskOf(PositionHistory) = before
           /\ Len(image_container) >= 1

-----------------------------------------------------------------------------
(* Clicks and moves *)

CellIdx(cell) == cell[1] * COLS_MAX + cell[2]
VisibleLocs ==
    {<<i, j>> : i \in 0..(choose_grid_size - 1), j \in 0..(choose_grid_size - 1)}
\* What a click on `cell` returns in the current state.
Click(cell) ==
    image_cell_pressed(cell, choose_grid_size, COLS_MAX, ImageList, ImageSizeLen,
                       classes, cell_last_clicked)

\* C16: a click on the visible cell that has focus and is grouped returns;
\* it leaves that cell ungrouped, without label and without focus, every
\* other cell as it was, and the clicked cell as the last clicked one; and
\* the grid after such a click is the one the handler returned.
C16_ClickOnFocusedGroupedCell ==
    /\ [](\A cell \in VisibleLocs :
            (HasFocus(CellIdx(cell)) /\ IsGrouped(CellIdx(cell))) =>
                /\ Click(cell).raised = None
                /\ Click(cell).classes = [classes EXCEPT ![CellIdx(cell)] = {"grouped-off"}]
                /\ Click(cell).cell_last_clicked = cell)
    /\ [][(/\ Returns("grid-button")
           /\ cell_last_clicked' \in VisibleLocs
           /\ HasFocus(CellIdx(cell_last_clicked'))
           /\ IsGrouped(CellIdx(cell_last_clicked'))) =>
                classes' = Click(cell_last_clicked').classes]_vars

\* A click has ungrouped a cell other than the top-left one: it has no class
\* left but grouped-off, and no cell has focus.
C16_Witness ==
    /\ last_callback = [name |-> "grid-button", raised |-> None, reset |-> None]
    /\ cell_last_clicked \in VisibleLocs
    /\ cell_last_clicked # <<0, 0>>
    /\ classes[CellIdx(cell_last_clicked)] = {"grouped-off"}
    /\ FocusCount = 0

\* The image index of a cell is inside the lists the zoomed image is read from.
InsideImageList(cell) ==
    \/ Len(ImageList) = 0
    \/ /\ cell[2] + cell[1] * choose_grid_size < Len(ImageList)
       /\ cell[2] + cell[1] * choose_grid_size < ImageSizeLen

\* C17 as stated, for the clicks that return: a click on a visible cell
\* without focus gives it the focus, takes the focus from every other cell
\* and toggles the grouped flag of the clicked cell, an ungrouped cell becoming
\* grouped and a grouped cell ungrouped and without label.
C17_ClickTogglesGrouped ==
    \A cell \in VisibleLocs :
        LET r == Click(cell)
        IN  (~HasFocus(CellIdx(cell)) /\ r.raised = None) =>
                /\ r.cell_last_clicked = cell
                /\ r.classes =
                      [idx \in GridCells |->
                          IF idx = CellIdx(cell)
                          THEN IF IsGrouped(idx) THEN {"grouped-off", "focus"}
                               ELSE {"grouped-on", "focus"}
                          ELSE classes[idx] \ {"focus"}]

\* C17, amended: a click on a visible cell without focus whose image index is
\* inside the image list returns, gives the cell the focus, takes the focus
\* from the cell that had it (its grouped flag and label stay) and makes the
\* clicked cell the last clicked one; an ungrouped clicked cell becomes
\* grouped, a grouped one stays grouped and keeps its label.  A click on a
\* cell whose index is outside the list raises IndexError.
C17_ClickGainsFocusGroupsUngrouped ==
    /\ [](\A cell \in VisibleLocs :
            ~HasFocus(CellIdx(cell)) =>
                IF InsideImageList(cell)
                THEN Click(cell).raised = None /\ Click(cell).cell_last_clicked = cell
                ELSE Click(cell).raised = "IndexError")
    /\ [][(/\ Returns("grid-button")
           /\ cell_last_clicked' \in VisibleLocs
           /\ ~HasFocus(CellIdx(cell_last_clicked'))) =>
                classes' = [idx \in GridCells |->
                               IF idx = CellIdx(cell_last_clicked')
                               THEN IF IsGrouped(idx) THEN classes[idx] \cup {"focus"}
                                    ELSE {"grouped-on", "focus"}
                               ELSE classes[idx] \ {"focus"}]]_vars

\* The select-row button had grouped every visible cell and a click has then
\* given the focus to one of them, away from the top-left cell: the clicked
\* cell is still grouped.
C17_Witness ==
    /\ last_callback = [name |-> "grid-button", raised |-> None, reset |-> None]
    /\ cell_last_clicked \in VisibleLocs \ {<<0, 0>>}
    /\ HasFocus(CellIdx(cell_last_clicked))
    /\ \A idx \in VisibleCells : IsGrouped(idx)

\* The neighbour of `cell` in the visible rectangle, which wraps like a torus.
Neighbour(cell, button_id) ==
    LET n == choose_grid_size
    IN  IF button_id = "move-left" THEN <<cell[1], IF cell[2] = 0 THEN n - 1 ELSE cell[2] - 1>>
        ELSE IF button_id = "move-right" THEN <<cell[1], IF cell[2] = n - 1 THEN 0 ELSE cell[2] + 1>>
        ELSE IF button_id = "move-up" THEN <<IF cell[1] = 0 THEN n - 1 ELSE cell[1] - 1, cell[2]>>
        ELSE <<IF cell[1] = n - 1 THEN 0 ELSE cell[1] + 1, cell[2]>>
FocusLoc == <<FocusCell \div COLS_MAX, FocusCell % COLS_MAX>>
\* The grid with the focus on `cell` and on no other cell, all else as it is.
FocusMovedTo(cell) ==
    [idx \in GridCells |->
        IF idx = CellIdx(cell) THEN classes[idx] \cup {"focus"} ELSE classes[idx] \ {"focus"}]

\* C18: in a loaded directory, a move pressed while a cell has focus puts the
\* focus on the neighbour of that cell in one of the four directions, with
\* wrap, makes it the last clicked cell and changes no grouped flag and no label.
C18_MoveShiftsFocusOnly ==
    [][(Loaded /\ last_callback'.name = "move" /\ FocusCount = 1) =>
          \E button_id \in MoveButtons :
              /\ classes' = FocusMovedTo(Neighbour(FocusLoc, button_id))
              /\ cell_last_clicked' = Neighbour(FocusLoc, button_id)]_vars

\* The outputs of the grid callback when a handler's result is `r`: a handler
\* that raised changes neither output.
Outputs(r, args, last) ==
    IF r.raised = None THEN [classes |-> r.classes, cell_last_clicked |-> r.cell_last_clicked]
    ELSE [classes |-> args, cell_last_clicked |-> last]

RECURSIVE MoveRepeatedly(_, _, _, _)
\* The outputs after the move button `button_id` has been pressed k times.
MoveRepeatedly(button_id, k, args, last) ==
    IF k = 0 THEN [classes |-> args, cell_last_clicked |-> last]
    ELSE LET r == direction_key_pressed(button_id, choose_grid_size, choose_grid_size, COLS_MAX,
                                        ImageList, ImageSizeLen, args, last)
             out == Outputs(r, args, last)
         IN  MoveRepeatedly(button_id, k - 1, out.classes, out.cell_last_clicked)

\* C19: in a loaded directory, from a state in which a visible cell has focus,
\* n_cols presses of move-right leave the focus on that cell and on no other.
C19_RightMovesComeBack ==
    (Loaded /\ FocusCount = 1 /\ FocusCell \in VisibleCells) =>
        LET out == MoveRepeatedly("move-right", choose_grid_size, classes, cell_last_clicked)
        IN  {idx \in GridCells : "focus" \in out.classes[idx]} = {FocusCell}

\* What a jump of n_cells returns in the current state.
Jump(jump_left, n_cells) ==
    Outputs(jump_focus_n_cells(jump_left, n_cells, choose_grid_size, choose_grid_size, COLS_MAX,
                               ImageList, ImageSizeLen, classes, cell_last_clicked),
            classes, cell_last_clicked)

\* C20: in a loaded directory with a focused cell, a jump of k cells to the
\* left or to the right, k in 2..7, gives the class names and the last clicked
\* cell that k presses of the move button of that direction give.
C20_JumpIsRepeatedMove ==
    (Loaded /\ FocusCount = 1) =>
        \A jump_left \in BOOLEAN, n_cells \in JumpSizes :
            Jump(jump_left, n_cells) =
                MoveRepeatedly(IF jump_left THEN "move-left" ELSE "move-right", n_cells,
                               classes, cell_last_clicked)

-----------------------------------------------------------------------------
(* Rows, labels, the group button and resets *)

\* The grid after the grouped flag of the visible cells of the first
\* min(n, n_rows) rows has been toggled and their labels cleared.
FirstRowsToggled(n) ==
    [idx \in GridCells |->
        IF /\ idx \in VisibleCells
           /\ idx \div COLS_MAX < Min(n, choose_grid_size)
        THEN class_turn_off_keep_delete(class_toggle_grouped(classes[idx]))
        ELSE classes[idx]]

\* C21: a press of a select-row-upto-n button toggles the grouped flag of
\* exactly the visible cells of the rows below min(n, n_rows), clears the
\* label of those cells, changes no other cell and moves no focus.
C21_SelectRowsTogglesVisibleRows ==
    [][last_callback'.name = "select-row-upto" =>
          \E n \in SelectRowButtons : classes' = FirstRowsToggled(n)]_vars

\* The class names of a cell after the label button was pressed on it: the
\* label is taken off if the cell has it, and replaces the other one if not.
LabelToggled(class_list, button_id) ==
    LET label == IF button_id = "keep-button" THEN "keep" ELSE "delete"
    IN  IF label \in class_list THEN class_list \ {label}
        ELSE (class_list \ {"keep", "delete"}) \cup {label}

\* C22 as stated: after the keep (delete) button was pressed while the focused
\* cell is grouped, that cell has the label keep (delete) and not the other one.
C22_LabelButtonSetsLabel ==
    [][(/\ last_callback'.name \in {"keep-button", "delete-button"}
        /\ FocusCount = 1 /\ IsGrouped(FocusCell)) =>
            IF last_callback'.name = "keep-button"
            THEN "keep" \in classes'[FocusCell] /\ "delete" \notin classes'[FocusCell]
            ELSE "delete" \in classes'[FocusCell] /\ "keep" \notin classes'[FocusCell]]_vars

\* C22, amended: the keep (delete) button pressed while the focused cell is
\* grouped returns and toggles that label on the cell: a cell that has the
\* label loses it and is left without label, a cell that has not gets it and
\* loses the other label; no other cell changes.
C22_LabelButtonTogglesLabel ==
    [][(/\ last_callback'.name \in {"keep-button", "delete-button"}
        /\ FocusCount = 1 /\ IsGrouped(FocusCell)) =>
            /\ last_callback'.raised = None
            /\ classes' = [classes EXCEPT
                              ![FocusCell] = LabelToggled(@, last_callback'.name)]]_vars

\* The keep button has returned and the focused, grouped cell has no label:
\* it had the label keep, and the press took it off.
C22_Witness ==
    /\ last_callback = [name |-> "keep-button", raised |-> None, reset |-> None]
    /\ FocusCount = 1
    /\ IsGrouped(FocusCell)
    /\ ~IsLabelled(FocusCell)

\* C23: the keep or the delete button pressed while no cell has focus, or
\* while the focused cell is not grouped, changes no class name of the grid:
\* no label, no grouped flag, no focus.
C23_LabelButtonNeedsGroupedFocus ==
    [][(/\ last_callback'.name \in {"keep-button", "delete-button"}
        /\ ~(FocusCount = 1 /\ IsGrouped(FocusCell))) =>
            classes' = classes]_vars

\* The delete button has returned on a grid whose focused cell is not grouped,
\* while another cell is: the grid has no label.
C23_Witness ==
    /\ last_callback = [name |-> "delete-button", raised |-> None, reset |-> None]
    /\ FocusCount = 1
    /\ ~IsGrouped(FocusCell)
    /\ \E idx \in VisibleCells : IsGrouped(idx)
    /\ \A idx \in GridCells : ~IsLabelled(idx)

\* What the group button returns in the current state.
GroupButton ==
    group_ungroup_key_pressed(choose_grid_size, COLS_MAX, ImageList, ImageSizeLen,
                              classes, cell_last_clicked)

InitialGrid == [idx \in GridCells |-> IF idx = 0 THEN {"grouped-off", "focus"} ELSE {"grouped-off"}]
\* The step chose another grid size or loaded another image list.
Resizes ==
    \/ last_callback'.name = "choose-grid-size"
    \/ last_callback'.name = "confirm-load-directory" /\ last_callback'.raised = None

C26_CommitAndUndoResetGrid ==
    [][(/\ Commits \/ Undoes
        /\ last_callback'.raised = None
        /\ History(image_data') # History(image_data)) =>
            classes' = InitialGrid]_vars

\* A commit has recorded a cell that was grouped and labelled delete, and the
\* grid is in its initial state.
C26_Witness ==
    /\ last_callback.name = "complete-group" /\ last_callback.raised = None
    /\ Loaded
    /\ Len(History(image_data).keep) = 1
    /\ FALSE \in Range(History(image_data).keep[1])
    /\ classes = InitialGrid

\* C27: a step that is neither a change of the grid size or of the image list
\* nor a reset after a commit or an undo changes no class name of a cell
\* outside the visible rectangle.
C27_HiddenCellsInert ==
    [][(~Resizes /\ last_callback'.reset = None) =>
          \A idx \in GridCells \ VisibleCells : classes'[idx] = classes[idx]]_vars

-----------------------------------------------------------------------------
(* The history and the progress *)

\* The three lists of a history have one entry per group, and the three
\* lists of an entry one element per image.
Lockstep(h) ==
    /\ Len(h.position) = Len(h.keep)
    /\ Len(h.position) = Len(h.filename)
    /\ \A g \in 1..Len(h.position) :
          /\ Len(h.position[g]) = Len(h.keep[g])
          /\ Len(h.position[g]) = Len(h.filename[g])
\* The cell of the visible rectangle whose image has position list_pos.
CellAt(list_pos) ==
    (list_pos \div choose_grid_size) * COLS_MAX + (list_pos % choose_grid_size)

\* C28: the position, keep and filename lists of every directory's history
\* have the same number of entries, one more after a commit that returns and
\* one less after an undo that returns on a history that has entries, and the
\* three lists of an entry have equal length; in the entry a commit appends,
\* filename[i] is the unmasked image at position[i] and keep[i] tells that the
\* cell showing it was not labelled delete.
C28_HistoryListsInLockstep ==
    /\ [](\A image_path \in DOMAIN image_data : Lockstep(image_data[image_path]))
    /\ [][(Commits /\ last_callback'.raised = None) =>
            /\ Len(History(image_data').position) = Len(History(image_data).position) + 1
            /\ LET entry == LastEntry(History(image_data'))
               IN  \A i \in 1..Len(entry.position) :
                       /\ entry.position[i] < Len(UnmaskedNow)
                       /\ entry.filename[i] = UnmaskedNow[entry.position[i] + 1]
                       /\ entry.keep[i] = ("delete" \notin classes[CellAt(entry.position[i])])]_vars
    /\ [][(Undoes /\ last_callback'.raised = None /\ Len(History(image_data).position) > 0) =>
            Len(History(image_data').position) = Len(History(image_data).position) - 1]_vars

\* Two commits were made and the second one undone: the history has one entry.
C28_Witness ==
    /\ last_callback.name = "undo-button" /\ last_callback.raised = None
    /\ Loaded
    /\ n_actions = 4
    /\ Len(History(image_data).position) = 1
    /\ Lockstep(History(image_data))

\* C29: in a loaded directory every commit that records a group and every
\* undo reports a progress, and it is round(100 * number of positions in the
\* history of the directory / number of images the directory was loaded with).
C29_ProgressIsRoundedShare ==
    [][(/\ Loaded
        /\ Commits \/ Undoes
        /\ last_callback'.raised \notin {"PreventUpdate", "FileNotFoundError"}) =>
            /\ last_callback'.raised = None
            /\ n_images > 0
            /\ progress_bar' =
                  RoundHalfEven(100 * SumLen(History(image_data').position, 1), n_images)]_vars

GridButtons ==
    {"grid-button", "move", "jump", "select-row-upto", "group-button",
     "keep-button", "delete-button"}

\* C30: in a loaded directory no cell click, move, jump, select-row press,
\* group press or keep/delete press fails on a position that is not smaller
\* than the length of the unmasked image list: the callback completes.
C30_GridTransitionsNeverFail ==
    [][(Loaded /\ last_callback'.name \in GridButtons) =>
            last_callback'.raised # "IndexError"]_vars

-----------------------------------------------------------------------------
(* The commit loop, the order of the writes and the focus *)

\* The class names args with every visible cell whose position is past the
\* end of the list unmasked replaced by a plain ungrouped cell.
InRangeOnly(args, unmasked) ==
    [idx \in GridCells |->
        IF idx \in VisibleCells /\ ListPos(idx) >= Len(unmasked)
        THEN {"grouped-off"} ELSE args[idx]]
\* What the loop of the commit collects from the class names args.
Collected(args, unmasked) ==
    CollectGroup(0, NoGroup, choose_grid_size, choose_grid_size, args, unmasked)
\* The positions of the visible cells of the list whose class has a given name.
PositionsWith(name, unmasked) ==
    {ListPos(idx) : idx \in {c \in VisibleCells :
                                ListPos(c) < Len(unmasked) /\ name \in classes[c]}}

\* C31: a visible cell whose position is not smaller than the length of the
\* unmasked filename list adds nothing to what a commit collects (the commit
\* collects what it would collect with that cell plain and ungrouped: the
\* positions of the grouped cells that show an image, one keep flag per
\* labelled cell that shows an image, the focus only from such a cell), and the
\* commit does not fail with an index error; a commit that returns appends the
\* group of the cells that show an image.
C31_CommitSkipsCellsPastTheList ==
    /\ [](LET unmasked == UnmaskedNow
              got == Collected(classes, unmasked)
          IN  /\ got = Collected(InRangeOnly(classes, unmasked), unmasked)
              /\ got.grouped_cell_positions = SortedSeq(PositionsWith("grouped-on", unmasked))
              /\ Len(got.grouped_cell_keeps) =
                    Cardinality(PositionsWith("keep", unmasked)
                                \cup PositionsWith("delete", unmasked))
              /\ got.focus = << >> \/ got.focus[1] \in PositionsWith("focus", unmasked))
    /\ [][(Loaded /\ Commits) =>
            /\ last_callback'.raised # "IndexError"
            /\ last_callback'.raised = None =>
                  LET unmasked == UnmaskedNow
                  IN  image_data' =
                          AppendGroup(WithKey(image_data, loaded_image_path),
                                      loaded_image_path,
                                      GroupToComplete(choose_grid_size, choose_grid_size,
                                                      InRangeOnly(classes, unmasked),
                                                      unmasked))]_vars
\* A commit was requested in a loaded directory while a grouped visible cell
\* lies past the end of the unmasked list.
C31_Witness ==
    /\ Loaded
    /\ last_callback.name = "complete-group"
    /\ \E idx \in VisibleCells : IsGrouped(idx) /\ ~ShowsImage(idx)

HistoryChanged == History(image_data') # History(image_data)

\* C32: a commit or an undo in a loaded directory changes the history of the
\* Store, and with it the mask, only in a step in which the callback returned
\* after the JSON snapshot of the new history was written, the rows of the
\* group were inserted (commit) or the delete was run (undo), and the
\* discarded files were removed (commit) or the files of the group copied back
\* (undo); a commit or undo that fails or is prevented leaves the history and
\* the list of unmasked images as they were.
C32_HistoryAdvancesAfterTheWrites ==
    [][(Loaded /\ (Commits \/ Undoes)) =>
        /\ last_callback'.raised # None =>
              /\ image_data' = image_data
              /\ UnmaskedNow' = UnmaskedNow
        /\ HistoryChanged =>
              /\ last_callback'.raised = None
              /\ meta_data_file' = <<image_data'>>
              /\ Commits =>
                    LET entry == LastEntry(History(image_data'))
                    IN  /\ database' = send_to_database(database, loaded_image_path,
                                                        entry.filename, entry.keep)
                        /\ \A i \in 1..Len(entry.filename) :
                              ~entry.keep[i] => entry.filename[i] \notin files'[loaded_image_path]
              /\ Undoes =>
                    LET entry == LastEntry(History(image_data))
                    IN  /\ database' = delete_from_database(database, loaded_image_path,
                                                            entry.filename)
                        /\ \A i \in 1..Len(entry.filename) :
                              entry.filename[i] \in files'[loaded_image_path]]_vars
\* An undo failed after it had written the shortened history to the JSON
\* snapshot: the Store still holds the entry.
C32_Witness ==
    /\ Loaded
    /\ last_callback.name = "undo-button"
    /\ last_callback.raised = "FileNotFoundError"
    /\ Len(History(image_data).position) = 1
    /\ meta_data_file # <<image_data>>

-----------------------------------------------------------------------------
(* record_grouped_data statement by statement (utils.py 329-347): the       *)
(* directory "A" holds any files, the group has one or two of the names,    *)
(* and the JSON dump and the insert can raise.                              *)

RecordNames == SubSeq(ImageNames, 1, MaxRecordFiles)
\* The groups a commit can hand over: distinct filenames, a keep flag each.
RecordGroups ==
    {[position |-> <<0>>, keep |-> <<k>>, filename |-> <<RecordNames[a]>>] :
        a \in 1..MaxRecordFiles, k \in BOOLEAN}
    \cup
    {[position |-> <<0, 1>>, keep |-> <<k[1], k[2]>>,
      filename |-> <<RecordNames[ab[1]], RecordNames[ab[2]]>>] :
        ab \in {p \in (1..MaxRecordFiles) \X (1..MaxRecordFiles) : p[1] # p[2]},
        k \in BOOLEAN \X BOOLEAN}

\* The statement that runs after a statement of record_grouped_data.
\* Mutant: the files are removed before the rows are inserted.
StatementAfter_removes_first(statement) ==
    IF statement = "json.dump" THEN "os.remove"
    ELSE IF statement = "os.remove" THEN "send_to_database"
    ELSE "return"

StatementAfter(statement) ==
    IF statement = "json.dump" THEN "send_to_database"
    ELSE IF statement = "send_to_database" THEN "os.remove"
    ELSE "return"

\* The group record_grouped_data was called with.
RecordedGroup == LastEntry(image_data["A"])

RecordInit ==
    /\ \E group \in RecordGroups :
          image_data = [k \in {"A"} |-> [position |-> <<group.position>>,
                                         keep |-> <<group.keep>>,
                                         filename |-> <<group.filename>>]]
    /\ \E present \in SUBSET Range(RecordNames) :
          /\ files = [d \in ExistingDirs |-> IF d = "A" THEN present ELSE {}]
          /\ backup = [d \in {"A"} |-> present]
    /\ loaded_image_path = "A"
    /\ image_container = << >>
    /\ classes = create_image_grid(ROWS_MAX, COLS_MAX)
    /\ cell_last_clicked = NoCell
    /\ choose_grid_size = InitGridSize
    /\ n_image_sizes = 0
    /\ n_images = 0
    /\ progress_bar = 0
    /\ meta_data_file = << >>
    /\ database = << >>
    /\ last_callback = [name |-> "json.dump", raised |-> None, reset |-> None]
    /\ n_actions = 1

RecordFrame ==
    UNCHANGED <<classes, cell_last_clicked, choose_grid_size, store_vars, image_data,
                progress_bar, backup>>
RecordGoes(statement) == last_callback' = [last_callback EXCEPT !.name = statement]
RecordRaises(raised) == last_callback' = [last_callback EXCEPT !.name = "raise", !.raised = raised]

\* "with open(meta_data_fpath, 'w') as j: json.dump(image_data, j)"
DumpJson ==
    /\ last_callback.name = "json.dump"
    /\ \/ /\ meta_data_file' = <<image_data>>
          /\ RecordGoes(StatementAfter("json.dump"))
       \/ /\ UNCHANGED meta_data_file
          /\ RecordRaises("OSError")
    /\ UNCHANGED <<database, files, n_actions>>
    /\ RecordFrame

\* "send_to_database(...)": the connection or the insert can raise.
SendToDatabase ==
    /\ last_callback.name = "send_to_database"
    /\ \/ /\ database' = send_to_database(database, "A", RecordedGroup.filename,
                                          RecordedGroup.keep)
          /\ RecordGoes(StatementAfter("send_to_database"))
       \/ /\ UNCHANGED database
          /\ RecordRaises("OperationalError")
    /\ UNCHANGED <<meta_data_file, files, n_actions>>
    /\ RecordFrame

\* One round of "for i, fname in enumerate(filename_list): if not keep_list[i]:
\* os.remove(...)", i = n_actions.
RemoveFile ==
    /\ last_callback.name = "os.remove"
    /\ IF n_actions > Len(RecordedGroup.filename)
       THEN /\ RecordGoes(StatementAfter("os.remove"))
            /\ n_actions' = 1
            /\ UNCHANGED files
       ELSE IF RecordedGroup.keep[n_actions]
       THEN /\ n_actions' = n_actions + 1
            /\ UNCHANGED <<files, last_callback>>
       ELSE IF RecordedGroup.filename[n_actions] \in files["A"]
       THEN /\ files' = [files EXCEPT !["A"] = @ \ {RecordedGroup.filename[n_actions]}]
            /\ n_actions' = n_actions + 1
            /\ UNCHANGED last_callback
       ELSE /\ RecordRaises("FileNotFoundError")
            /\ UNCHANGED <<files, n_actions>>
    /\ UNCHANGED <<meta_data_file, database>>
    /\ RecordFrame

RecordNext ==
    \/ DumpJson
    \/ SendToDatabase
    \/ RemoveFile

RecordSpec == RecordInit /\ [][RecordNext]_vars

JsonHoldsCommit == meta_data_file = <<image_data>>
RowsInserted ==
    database = send_to_database(<< >>, "A", RecordedGroup.filename, RecordedGroup.keep)

\* C33: record_grouped_data removes a file from the working directory only
\* when the JSON snapshot holding the commit is written and the rows of the
\* commit are inserted; when the JSON dump or the insert raises, every file of
\* the working directory is in place; and run to its end it leaves what the
\* commit of the program model records.
C33_FilesRemovedLast ==
    /\ [](files # [d \in ExistingDirs |-> IF d = "A" THEN backup["A"] ELSE {}] =>
              JsonHoldsCommit /\ RowsInserted)
    /\ [](last_callback.raised \in {"OSError", "OperationalError"} => files["A"] = backup["A"])
    /\ [](last_callback.name \in {"return", "raise"} /\ last_callback.raised \notin {"OSError", "OperationalError"} =>
              LET rec == record_grouped_data(image_data, "A", RecordedGroup.filename,
                                             RecordedGroup.keep, << >>,
                                             [d \in ExistingDirs |-> IF d = "A" THEN backup["A"] ELSE {}])
              IN  /\ rec.meta_data_file = meta_data_file
                  /\ rec.database = database
                  /\ rec.files = files
                  /\ rec.raised = last_callback.raised)
    /\ [][files' # files => JsonHoldsCommit /\ RowsInserted]_vars
\* record_grouped_data returned after it removed a file.
C33_Witness ==
    /\ last_callback.name = "return"
    /\ JsonHoldsCommit /\ RowsInserted
    /\ files["A"] # backup["A"]
-----------------------------------------------------------------------------
(* The start screen with up to MaxStartImages default images, after the     *)
(* operator clicked each of them in the first row and pressed keep on it:   *)
(* config.IMAGE_SIZES has one entry per default image and no padding        *)
(* (config.py 40-43).                                                       *)

RECURSIVE LabelledFirst(_, _, _)
\* What the grid callback has returned after the first k cells of row 0 were
\* clicked and kept one after the other on a fresh start screen.
LabelledFirst(k, image_srcs, n_img_srcs) ==
    IF k = 0 THEN Handled(create_image_grid(ROWS_MAX, COLS_MAX), NoCell, None)
    ELSE LET before == LabelledFirst(k - 1, image_srcs, n_img_srcs)
             clicked == image_cell_pressed(<<0, k - 1>>, InitGridSize, COLS_MAX, image_srcs,
                                           n_img_srcs, before.classes,
                                           before.cell_last_clicked)
         IN  keep_delete_pressed("keep-button", InitGridSize, COLS_MAX, image_srcs,
                                 n_img_srcs, clicked.classes, clicked.cell_last_clicked)

StartScreenInit ==
    \E n_img_srcs \in 1..Min(MaxStartImages, InitGridSize) :
        LET image_srcs == Padded(SubSeq(DefaultNames, 1, n_img_srcs))
            labelled == LabelledFirst(n_img_srcs, image_srcs, n_img_srcs)
        IN  /\ classes = labelled.classes
            /\ cell_last_clicked = labelled.cell_last_clicked
            /\ choose_grid_size = InitGridSize
            /\ image_container = image_srcs
            /\ n_image_sizes = n_img_srcs
            /\ image_data = [k \in {IGNORE} |-> EmptyHistory]
            /\ loaded_image_path = IGNORE
            /\ n_images = n_img_srcs
            /\ progress_bar = 0
            /\ meta_data_file = << >>
            /\ database = << >>
            /\ files = [d \in ExistingDirs |-> Range(DirImages(d))]
            /\ backup = [d \in {} |-> {}]
            /\ last_callback = [name |-> "keep-button", raised |-> labelled.raised,
                                reset |-> None]
            /\ n_actions = 0

StartScreenSpec == StartScreenInit /\ [][Next]_vars

\* C34: in every reachable state a cell that has focus is the cell recorded as
\* last clicked (None read as [0,0]), and no click ends in the case for which
\* image_cell_pressed computes no new class for the old cell.
C34_FocusIsLastClicked ==
    /\ \A idx \in GridCells :
          HasFocus(idx) => idx = CellIdx(LastClickedOrOrigin(cell_last_clicked))
    /\ last_callback.raised # "UnboundLocalError"

\* C35: in every reachable state the focused cell, when there is one, and
\* the last clicked cell lie inside the visible rectangle.
C35_FocusInsideVisibleRectangle ==
    /\ \A idx \in GridCells : HasFocus(idx) => idx \in VisibleCells
    /\ LastClickedOrOrigin(cell_last_clicked) \in VisibleLocs

\* What a press of the move button `button_id` returns in the current state.
Move(button_id) ==
    direction_key_pressed(button_id, choose_grid_size, choose_grid_size, COLS_MAX,
                          ImageList, ImageSizeLen, classes, cell_last_clicked)

\* C36: in a loaded directory, a move pressed while no cell has focus gives
\* the focus to the neighbour, with wrap, of the last clicked cell and makes it
\* the last clicked cell: one cell has focus afterwards, and no grouped flag
\* and no label changes.
C36_MoveWithoutFocusGivesFocus ==
    (Loaded /\ FocusCount = 0) =>
        \A button_id \in MoveButtons :
            LET target == Neighbour(LastClickedOrOrigin(cell_last_clicked), button_id)
            IN  /\ Move(button_id).raised = None
                /\ Move(button_id).classes = FocusMovedTo(target)
                /\ Move(button_id).cell_last_clicked = target

-----------------------------------------------------------------------------
(* The square grid, the mask and the history map *)

\* Both States of the commit callback read the value of 'choose-grid-size'.
n_rows == choose_grid_size
n_cols == choose_grid_size
\* The image create_reactive_image_grid puts in cell (x, y): get_grid_element
\* reads image_list[y + x*n_y] of the unmasked list padded to the whole grid.
GridImage(x, y) == Padded(ImageList)[y + x * n_cols + 1]
\* The cells a commit that returns has recorded: the grouped ones that show
\* an image, or the focused one when none is grouped.
CommittedCells == IF GroupedVisible # {} THEN GroupedVisible ELSE FocusedVisible

\* C37: the visible rectangle is square, the position col + row*n_rows a
\* commit uses for a cell is the index col + row*n_cols its image is shown
\* and zoomed with, and the entry a commit that returns appends has one
\* position per recorded cell, with the filename of the image shown in that
\* cell, and no position twice.
C37_CommitRecordsShownImages ==
    /\ [](/\ n_rows = n_cols
          /\ \A idx \in VisibleCells :
                ListPos(idx) = (idx % COLS_MAX) + (idx \div COLS_MAX) * n_cols)
    /\ [][(Commits /\ last_callback'.raised = None) =>
            LET entry == LastEntry(History(image_data'))
            IN  /\ Len(entry.position) = Cardinality(CommittedCells)
                /\ \A idx \in CommittedCells :
                      \E k \in 1..Len(entry.position) :
                          /\ entry.position[k] = (idx % COLS_MAX) + (idx \div COLS_MAX) * n_rows
                          /\ entry.filename[k] = GridImage(idx \div COLS_MAX, idx % COLS_MAX)
                /\ \A a, b \in 1..Len(entry.position) :
                      a # b => entry.position[a] # entry.position[b]]_vars
\* A commit has recorded a cell below the first row of the rectangle.
C37_Witness ==
    /\ last_callback.name = "complete-group" /\ last_callback.raised = None
    /\ Len(History(image_data).position) > 0
    /\ \E k \in 1..Len(LastEntry(History(image_data)).position) :
          LastEntry(History(image_data)).position[k] >= n_cols

\* The mask of the loaded directory's images under its history.
MaskNow == FlatMask(image_data, loaded_image_path, image_container)
\* The number of images of the container that the history masks.
MaskedCount == Len(image_container) - Len(UnmaskedNow)

\* C38: in a loaded directory the number of masked images equals the number
\* of positions in the history of the directory; every position a commit
\* appends is an index into the list of unmasked images of that moment and
\* occurs once in its group, so it masks one image that was not masked before.
C38_MaskedCountIsPositionCount ==
    /\ [](~Loaded \/ MaskedCount = SumLen(History(image_data).position, 1))
    /\ [][(Loaded /\ Commits /\ last_callback'.raised = None) =>
            LET position == LastEntry(History(image_data')).position
                n_unmasked == Len(UnmaskedNow)
                before == MaskNow
                after == MaskNow'
            IN  /\ \A k \in 1..Len(position) :
                      /\ position[k] < n_unmasked
                      /\ \A m \in 1..Len(position) :
                            m # k => position[m] # position[k]
                /\ MaskedCount' = MaskedCount + Len(position)
                /\ CountOf(after, TRUE) = CountOf(before, TRUE) + Len(position)
                /\ \A i \in DOMAIN before : before[i] => after[i]]_vars
\* Two commits were recorded in a loaded directory: two images are masked.
C38_Witness ==
    /\ Loaded
    /\ Len(History(image_data).position) = 2
    /\ MaskedCount = 2

OtherKeys == DOMAIN image_data \ {loaded_image_path}

\* C39: a commit or an undo, whether it returns or not, leaves the history of
\* every key of the Store other than the loaded directory as it was, and adds
\* no key but that of the loaded directory.
C39_OtherDirectoriesUntouched ==
    [][(Commits \/ Undoes) =>
          /\ \A image_path \in OtherKeys :
                /\ image_path \in DOMAIN image_data'
                /\ image_data'[image_path] = image_data[image_path]
          /\ DOMAIN image_data' \subseteq DOMAIN image_data \cup {loaded_image_path}]_vars
\* A commit or an undo has changed the history of the loaded directory while
\* the start screen's key holds a group of its own.
C39_Witness ==
    /\ Loaded
    /\ last_callback.name \in {"complete-group", "undo-button"}
    /\ last_callback.raised = None
    /\ Len(image_data[IGNORE].position) = 1
    /\ loaded_image_path \in DOMAIN image_data

\* C40: after every commit and every undo that returns in a loaded directory
\* the reported progress lies within 0..100 and the number of committed
\* positions does not exceed the number of images the directory was loaded with.
C40_ProgressWithinBounds ==
    [][(Loaded /\ (Commits \/ Undoes) /\ last_callback'.raised = None) =>
          /\ progress_bar' \in 0..100
          /\ SumLen(History(image_data').position, 1) <= n_images]_vars

=============================================================================
